---- MODULE Spec2Model ----
(***************************************************************************)
(* MediInsight appointment dashboard (src/code.py): the synthetic cohort   *)
(* generator load_data, the st.cache_data entry that holds its result, and *)
(* the Dashboard page's KPI, search and high-risk computations, which      *)
(* Streamlit re-runs top to bottom for a session on every interaction.     *)
(*                                                                         *)
(* Conventions of the model                                                *)
(*  - a Python str is a sequence of one-character strings, so that         *)
(*    formatting and substring search are computed, not assumed;           *)
(*  - a date is an integer day number (datetime.now() is a drawn input,    *)
(*    timedelta(days=d) adds d);                                           *)
(*  - a float ratio is the exact fraction [num, den] it rounds; den > 0    *)
(*    whenever a fraction is built (a zero divisor raises instead);        *)
(*  - the outcomes of np.random and of datetime.now() for one row are one  *)
(*    record of draws; a tape is the sequence of draws of one call;        *)
(*  - layout, chart and widget calls render and leave the data alone; the  *)
(*    one exception kept is px.donut (line 155), which raises              *)
(*    AttributeError where the installed plotly.express has no donut.      *)
(***************************************************************************)
EXTENDS Integers, Sequences, FiniteSets, TLC

VARIABLES
    cache,          \* st.cache_data store of load_data: count |-> [by, value]
    sess,           \* per browser session: widget state and the last run's results
    px_has_donut    \* whether the installed plotly.express defines donut

vars == <<cache, sess, px_has_donut>>

(***************************************************************************)
(* Bounds of the model.                                                    *)
(***************************************************************************)
\* largest count the generator is called with when checked on its own
MaxCount == 2
\* the count the script passes to load_data (500 at line 56), scaled down
DefaultCount == 3
\* browser sessions served by the one Streamlit process
NumSessions == 2

(***************************************************************************)
(* Program constants.                                                      *)
(***************************************************************************)
PatientBase == 10000
AppointmentBase == 50000
VisitValue == 150
LeadThreshold == 5
QueueHead == 5

Sessions == 1..NumSessions

(***************************************************************************)
(* Strings.                                                                *)
(***************************************************************************)
DigitChars == <<"0", "1", "2", "3", "4", "5", "6", "7", "8", "9">>

UpperChars == <<"A", "B", "C", "D", "E", "F", "G", "H", "I", "J", "K", "L", "M",
                "N", "O", "P", "Q", "R", "S", "T", "U", "V", "W", "X", "Y", "Z", "Ê">>

LowerChars == <<"a", "b", "c", "d", "e", "f", "g", "h", "i", "j", "k", "l", "m",
                "n", "o", "p", "q", "r", "s", "t", "u", "v", "w", "x", "y", "z", "ê">>

\* str(n) for n >= 0, as the f-strings of lines 36-37 format an int
RECURSIVE IntToStr(_)
IntToStr(n) ==
    IF n < 10 THEN <<DigitChars[n + 1]>>
    ELSE IntToStr(n \div 10) \o <<DigitChars[(n % 10) + 1]>>

\* the case folding re.IGNORECASE applies to one character
lower(c) ==
    IF \E k \in DOMAIN UpperChars : UpperChars[k] = c
    THEN LowerChars[CHOOSE k \in DOMAIN UpperChars : UpperChars[k] = c]
    ELSE c

neighbourhoods ==
    << <<"J","A","R","D","I","M"," ","D","A"," ","P","E","N","H","A">>,
       <<"M","A","T","A"," ","D","A"," ","P","R","A","I","A">>,
       <<"P","O","N","T","A","L"," ","D","E"," ","C","A","M","B","U","R","I">>,
       <<"J","A","R","D","I","M"," ","C","A","M","B","U","R","I">>,
       <<"R","E","S","I","S","T","Ê","N","C","I","A">> >>

(***************************************************************************)
(* The random source.                                                      *)
(***************************************************************************)
\* np.random.randint(low, high): high is exclusive
randint(low, high) == low..(high - 1)

\* np.random.choice(xs): one of the listed values (p only weights them)
choice(xs) == {xs[k] : k \in DOMAIN xs}

\* The draws of one loop iteration, lines 23-47, each field within the set
\* the source draws it from.  The arguments pick the values enumerated for
\* the fields a check varies; the remaining fields are held at one value.
Draws(no_show, sms, days, lead, hoods) ==
    [ is_no_show    : no_show \cap choice(<<"Yes", "No">>),
      has_sms       : sms \cap choice(<<0, 1>>),
      age           : {5} \cap randint(5, 85),
      now           : {0},
      days_ago      : days \cap randint(1, 30),
      lead_days     : lead \cap randint(0, 15),
      diabetes      : {0} \cap choice(<<0, 1>>),
      hipertension  : {0} \cap choice(<<0, 1>>),
      gender        : {"F"} \cap choice(<<"F", "M">>),
      neighbourhood : hoods \cap choice(neighbourhoods),
      scholarship   : {0} \cap choice(<<0, 1>>),
      alcoholism    : {0} \cap choice(<<0, 1>>),
      handcap       : {0} \cap choice(<<0, 1>>) ]

\* generator checks: every lead time, both ends of the scheduling window
GenDraws == Draws({"No"}, {0}, {1, 29}, randint(0, 15), {neighbourhoods[1]})

\* dashboard checks: outcome, reminder and both sides of the lead threshold,
\* and one record of another neighbourhood and window
KpiDraws ==
    Draws({"Yes", "No"}, {0, 1}, {1}, {5, 6}, {neighbourhoods[1]})
    \cup Draws({"Yes"}, {1}, {29}, {14}, {neighbourhoods[2]})

\* search checks: two neighbourhoods, and the reminder flag so that a run can
\* get as far as the search
SearchDraws ==
    Draws({"Yes"}, {0, 1}, {1}, {6}, {neighbourhoods[2], neighbourhoods[5]})

\* session checks: the reminder flag only
SessDraws == Draws({"Yes"}, {0, 1}, {1}, {6}, {neighbourhoods[1]})

Tapes(count, D) == [1..count -> D]

(***************************************************************************)
(* 1. Data simulation, lines 17-54.                                        *)
(***************************************************************************)
\* variant of Row: the appointment date counted from now, not from the
\* scheduled date
RowSwapped(i, d) ==
    LET scheduled_date == d.now - d.days_ago
        appointment_date == d.now + d.lead_days
    IN  [ PatientId      |-> <<"P", "-">> \o IntToStr(PatientBase + i),
          AppointmentID  |-> <<"A", "P", "T", "-">> \o IntToStr(AppointmentBase + i),
          Gender         |-> d.gender,
          ScheduledDay   |-> scheduled_date,
          AppointmentDay |-> appointment_date,
          Age            |-> d.age,
          Neighbourhood  |-> d.neighbourhood,
          Scholarship    |-> d.scholarship,
          Hipertension   |-> d.hipertension,
          Diabetes       |-> d.diabetes,
          Alcoholism     |-> d.alcoholism,
          Handcap        |-> d.handcap,
          SMS_received   |-> d.has_sms,
          No_show        |-> d.is_no_show,
          LeadDays       |-> d.lead_days ]

\* the row built by iteration i of the loop from that iteration's draws
Row(i, d) ==
    LET scheduled_date == d.now - d.days_ago
        appointment_date == scheduled_date + d.lead_days
    IN  [ PatientId      |-> <<"P", "-">> \o IntToStr(PatientBase + i),
          AppointmentID  |-> <<"A", "P", "T", "-">> \o IntToStr(AppointmentBase + i),
          Gender         |-> d.gender,
          ScheduledDay   |-> scheduled_date,
          AppointmentDay |-> appointment_date,
          Age            |-> d.age,
          Neighbourhood  |-> d.neighbourhood,
          Scholarship    |-> d.scholarship,
          Hipertension   |-> d.hipertension,
          Diabetes       |-> d.diabetes,
          Alcoholism     |-> d.alcoholism,
          Handcap        |-> d.handcap,
          SMS_received   |-> d.has_sms,
          No_show        |-> d.is_no_show,
          LeadDays       |-> d.lead_days ]

\* variant of load_data: the loop runs over range(1, count)
load_data_short(count, tape) == [k \in 1..(count - 1) |-> Row(k, tape[k])]

\* the body of load_data: range(count) is empty for count <= 0, and the
\* function has no check of its argument

load_data(count, tape) == [k \in 1..count |-> Row(k - 1, tape[k])]

\* variant of cache_hit: the decorator left out, every call runs the body
cache_never(key) == FALSE

\* @st.cache_data: a call with arguments seen before returns the stored value

cache_hit(key) == key \in DOMAIN cache

(***************************************************************************)
(* 3. Dashboard logic, lines 74-213.                                       *)
(***************************************************************************)
Pages == {"Dashboard", "Patients", "Schedule", "Settings"}

\* (a / b) * 100 as an exact fraction; the caller has b # 0
Percent(a, b) == [num |-> a * 100, den |-> b]

\* x - y for fractions
RatSub(x, y) == [num |-> x.num * y.den - y.num * x.den, den |-> x.den * y.den]

Zero == [num |-> 0, den |-> 1]

IsNoShow(r) == r.No_show = "Yes"
IsShow(r) == r.No_show = "No"
GotSms(r) == r.SMS_received = 1
GotNoSms(r) == r.SMS_received = 0

\* variant of no_show_rate: the rows that attended are counted
show_rate(df) == Percent(Len(SelectSeq(df, IsShow)), Len(df))

\* rate, lines 93-96 (also the two group rates of lines 102-103)
no_show_rate(df) == Percent(Len(SelectSeq(df, IsNoShow)), Len(df))

\* variant of sms_impact: the difference taken the other way round
sms_impact_flipped(df) ==
    RatSub(no_show_rate(SelectSeq(df, GotSms)), no_show_rate(SelectSeq(df, GotNoSms)))

\* sms_impact, lines 99-104
sms_impact(df) ==
    RatSub(no_show_rate(SelectSeq(df, GotNoSms)), no_show_rate(SelectSeq(df, GotSms)))

\* the exception lines 93-104 raise, "" when they raise none.  A frame built
\* from no row has no column, so df['No-show'] at line 94 raises KeyError; the
\* divisions of lines 102 and 103 raise ZeroDivisionError on an empty group
kpi_error(df) ==
    IF Len(df) = 0 THEN "KeyError"
    ELSE IF Len(SelectSeq(df, GotSms)) = 0 \/ Len(SelectSeq(df, GotNoSms)) = 0
         THEN "ZeroDivisionError"
    ELSE ""

\* gender_counts, line 154: value_counts lists only the genders present
gender_counts(df) ==
    LET no_shows == SelectSeq(df, IsNoShow)
        present == {no_shows[k].Gender : k \in DOMAIN no_shows}
    IN  [g \in present |-> Cardinality({k \in DOMAIN no_shows : no_shows[k].Gender = g})]

(***************************************************************************)
(* Series.str.contains(pat, case=False), lines 177-178.  regex is left at  *)
(* its default True, so pandas compiles pat with re.compile(pat,           *)
(* re.IGNORECASE) and keeps the rows where pattern.search finds a match.   *)
(* The pattern language is followed as Python's parser reads it: literals, *)
(* ".", "|", groups, (?:...), lookahead (?=...) (?!...), the quantifiers   *)
(* * + ? {m,n} and their lazy forms, ^ $ \A \Z \b \B, character sets with  *)
(* ranges and negation, \d \D \s \S \w \W, and escaped punctuation.  A     *)
(* pattern the parser rejects is "error" (re.error).  A pattern that uses  *)
(* anything else (back-references, named or conditional groups, inline     *)
(* flags, look-behind, atomic groups and possessive quantifiers, control,  *)
(* octal, hex and unicode escapes, characters outside CharTable, repeat    *)
(* counts of three digits or more, more than 100 groups) is "beyond": the  *)
(* model keeps every outcome for it, each exception and each column.  The columns hold Python str objects built at lines     *)
(* 36-43 (object dtype), without line breaks.                              *)
(***************************************************************************)
\* the printable ASCII characters in code order: codes 32..95, then 97..126
\* (code 96, the grave accent, has no TLA+ string and is not in the table)
CharTable ==
    <<" ", "!", "\"", "#", "$", "%", "&", "'", "(", ")", "*", "+", ",", "-", ".", "/",
      "0", "1", "2", "3", "4", "5", "6", "7", "8", "9", ":", ";", "<", "=", ">", "?",
      "@", "A", "B", "C", "D", "E", "F", "G", "H", "I", "J", "K", "L", "M", "N", "O",
      "P", "Q", "R", "S", "T", "U", "V", "W", "X", "Y", "Z", "[", "\\", "]", "^", "_",
      "a", "b", "c", "d", "e", "f", "g", "h", "i", "j", "k", "l", "m", "n", "o",
      "p", "q", "r", "s", "t", "u", "v", "w", "x", "y", "z", "{", "|", "}", "~">>

\* ord(c); -1 for a character the model does not know
Ord(c) ==
    IF \E k \in DOMAIN CharTable : CharTable[k] = c
    THEN LET k == CHOOSE j \in DOMAIN CharTable : CharTable[j] = c
         IN  IF k <= 64 THEN 31 + k ELSE 32 + k
    ELSE IF c = "Ê" THEN 202 ELSE IF c = "ê" THEN 234 ELSE -1

KnownChars == {CharTable[k] : k \in DOMAIN CharTable} \cup {"Ê", "ê"}

IsDigit(c) == \E k \in DOMAIN DigitChars : DigitChars[k] = c

IsAsciiLetter(c) ==
    \E k \in 1..26 : UpperChars[k] = c \/ LowerChars[k] = c

\* \w under re.UNICODE: letters, digits and the underscore
IsWord(c) ==
    \/ IsDigit(c)
    \/ c = "_"
    \/ \E k \in DOMAIN UpperChars : UpperChars[k] = c \/ LowerChars[k] = c

RECURSIVE DecimalValue(_)
\* int(digits) for a non-empty run of digits
DecimalValue(digits) ==
    IF Len(digits) = 1 THEN Ord(digits[1]) - 48
    ELSE 10 * DecimalValue(SubSeq(digits, 1, Len(digits) - 1))
         + (Ord(digits[Len(digits)]) - 48)

RECURSIVE DigitsEnd(_, _)
\* the first index from j on that holds no digit
DigitsEnd(pat, j) ==
    IF j <= Len(pat) /\ IsDigit(pat[j]) THEN DigitsEnd(pat, j + 1) ELSE j

\* results of the parser: what was read and the index of the next character
Parsed(node, pos) == [st |-> "ok", node |-> node, pos |-> pos]
Stopped(st) == [st |-> st, node |-> <<>>, pos |-> 0]

\* the result r, taken to end before index pos
EndingAt(r, pos) == IF r.st = "ok" THEN Parsed(r.node, pos) ELSE r

\* code of an escape inside a character set (_class_escape)
ClassEscape(e) ==
    IF e \notin KnownChars THEN Stopped("beyond")
    ELSE IF e \in {"d", "D", "s", "S", "w", "W"} THEN Parsed([t |-> "cat", c |-> e], 0)
    ELSE IF IsDigit(e) \/ e \in {"a", "b", "f", "n", "r", "t", "v", "x", "u", "U", "N"}
         THEN Stopped("beyond")
    ELSE IF IsAsciiLetter(e) THEN Stopped("error")
    ELSE Parsed([t |-> "ch", c |-> e], 0)

\* one member of a set, read at index j: a character or an escape
ClassMember(pat, j) ==
    IF pat[j] = "\\"
    THEN IF j = Len(pat) THEN Stopped("error")
         ELSE EndingAt(ClassEscape(pat[j + 1]), j + 2)
    ELSE IF pat[j] \notin KnownChars THEN Stopped("beyond")
    ELSE Parsed([t |-> "ch", c |-> pat[j]], j + 1)

RECURSIVE ParseClass(_, _, _, _)

\* the range m1-m2 inside a set, then the rest of the set
ClassRange(pat, neg, items, m1, m2) ==
    IF m2.st # "ok" THEN m2
    ELSE IF m1.node.t # "ch" \/ m2.node.t # "ch" THEN Stopped("error")
    ELSE IF Ord(m2.node.c) < Ord(m1.node.c) THEN Stopped("error")
    ELSE ParseClass(pat, m2.pos, neg,
                    Append(items, [t |-> "range",
                                   lo |-> Ord(m1.node.c), hi |-> Ord(m2.node.c)]))

\* the member m1 of a set has been read: a "-" after it opens a range, unless
\* the set ends right there
ClassAfter(pat, neg, items, m1) ==
    IF m1.st # "ok" THEN m1
    ELSE IF m1.pos <= Len(pat) /\ pat[m1.pos] = "-"
    THEN IF m1.pos + 1 > Len(pat) THEN Stopped("error")
         ELSE IF pat[m1.pos + 1] = "]"
              THEN Parsed([k |-> "set", neg |-> neg,
                           items |-> items \o <<m1.node, [t |-> "ch", c |-> "-"]>>],
                          m1.pos + 2)
         ELSE ClassRange(pat, neg, items, m1, ClassMember(pat, m1.pos + 1))
    ELSE ParseClass(pat, m1.pos, neg, Append(items, m1.node))

\* the members of a set from index j on, up to the closing "]"; a "]" that
\* comes first is a member
ParseClass(pat, j, neg, items) ==
    IF j > Len(pat) THEN Stopped("error")
    ELSE IF pat[j] = "]" /\ items # <<>>
         THEN Parsed([k |-> "set", neg |-> neg, items |-> items], j + 1)
    ELSE ClassAfter(pat, neg, items, ClassMember(pat, j))

\* code of an escape outside a set (_escape)
Escape(e) ==
    IF e \notin KnownChars THEN Stopped("beyond")
    ELSE IF e \in {"d", "D", "s", "S", "w", "W"}
         THEN Parsed([k |-> "set", neg |-> FALSE, items |-> <<[t |-> "cat", c |-> e]>>], 0)
    ELSE IF e \in {"A", "Z", "b", "B"} THEN Parsed([k |-> "at", w |-> e], 0)
    ELSE IF IsDigit(e) \/ e \in {"a", "f", "n", "r", "t", "v", "x", "u", "U", "N"}
         THEN Stopped("beyond")
    ELSE IF IsAsciiLetter(e) THEN Stopped("error")
    ELSE Parsed([k |-> "lit", c |-> e], 0)

\* the items read so far with the node of r added, r ending before index pos
Push(items, r, pos) ==
    IF r.st # "ok" THEN r ELSE Parsed(Append(items, r.node), pos)

\* the items read so far with the set r added
PushSet(items, r) == Push(items, r, r.pos)

\* a quantifier with the bounds lo..hi (hi = -1: no upper bound) whose text
\* ends before index j, applied to the last item read; a "?" after it only
\* makes it lazy
Repeat(pat, j, items, lo, hi) ==
    IF hi # -1 /\ hi < lo THEN Stopped("error")
    ELSE IF items = <<>> THEN Stopped("error")
    ELSE IF items[Len(items)].k \in {"at", "rep"} THEN Stopped("error")
    ELSE IF j <= Len(pat) /\ pat[j] = "+" THEN Stopped("beyond")
    ELSE Parsed([items EXCEPT ![Len(items)] =
                    [k |-> "rep", x |-> items[Len(items)], lo |-> lo, hi |-> hi]],
                IF j <= Len(pat) /\ pat[j] = "?" THEN j + 1 ELSE j)

\* "{" at index i, with the digits lo and hi found up to index e
BraceSpan(pat, i, items, e, lo, hi) ==
    IF (i + 1 <= Len(pat) /\ pat[i + 1] = "}") \/ ~(e <= Len(pat) /\ pat[e] = "}")
    THEN Parsed(Append(items, [k |-> "lit", c |-> "{"]), i + 1)
    ELSE IF Len(lo) > 2 \/ Len(hi) > 2 THEN Stopped("beyond")
    ELSE Repeat(pat, e + 1, items,
                IF lo = <<>> THEN 0 ELSE DecimalValue(lo),
                IF hi = <<>> THEN -1 ELSE DecimalValue(hi))

\* "{" at index i, the first run of digits ending before index j
BraceAt(pat, i, items, j) ==
    IF j <= Len(pat) /\ pat[j] = ","
    THEN BraceSpan(pat, i, items, DigitsEnd(pat, j + 1),
                   SubSeq(pat, i + 1, j - 1),
                   SubSeq(pat, j + 1, DigitsEnd(pat, j + 1) - 1))
    ELSE BraceSpan(pat, i, items, j, SubSeq(pat, i + 1, j - 1), SubSeq(pat, i + 1, j - 1))

\* "{" at index i: a repeat {m}, {m,}, {,n}, {m,n}, or else a literal brace
Brace(pat, i, items) == BraceAt(pat, i, items, DigitsEnd(pat, i + 1))

RECURSIVE ParseSub(_, _)
RECURSIVE ParseItems(_, _, _)

\* a group of the form what ("": plain, ":", "=", "!") whose body has been read
GroupClose(pat, items, what, body) ==
    IF body.st # "ok" THEN body
    ELSE IF ~(body.pos <= Len(pat) /\ pat[body.pos] = ")") THEN Stopped("error")
    ELSE Parsed(Append(items,
                       IF what \in {"=", "!"}
                       THEN [k |-> "look", x |-> body.node, neg |-> what = "!"]
                       ELSE [k |-> "grp", x |-> body.node]),
                body.pos + 1)

\* "(?" at index i
Extension(pat, i, items) ==
    IF i + 2 > Len(pat) THEN Stopped("error")
    ELSE IF pat[i + 2] \notin KnownChars THEN Stopped("beyond")
    ELSE IF pat[i + 2] \in {"P", "#", "<", "(", ">", "-",
                             "a", "i", "L", "m", "s", "t", "u", "x"}
         THEN Stopped("beyond")
    ELSE IF pat[i + 2] \notin {":", "=", "!"} THEN Stopped("error")
    ELSE GroupClose(pat, items, pat[i + 2], ParseSub(pat, i + 3))

\* "(" at index i: a group, or one of the (? forms
Group(pat, i, items) ==
    IF i + 1 <= Len(pat) /\ pat[i + 1] = "?"
    THEN Extension(pat, i, items)
    ELSE GroupClose(pat, items, "", ParseSub(pat, i + 1))

\* the item at index i read and added to items
Item(pat, i, items) ==
    IF pat[i] \notin KnownChars THEN Stopped("beyond")
    ELSE IF pat[i] = "\\"
         THEN IF i = Len(pat) THEN Stopped("error")
              ELSE Push(items, Escape(pat[i + 1]), i + 2)
    ELSE IF pat[i] = "["
         THEN IF i + 1 <= Len(pat) /\ pat[i + 1] = "^"
              THEN PushSet(items, ParseClass(pat, i + 2, TRUE, <<>>))
              ELSE PushSet(items, ParseClass(pat, i + 1, FALSE, <<>>))
    ELSE IF pat[i] = "?" THEN Repeat(pat, i + 1, items, 0, 1)
    ELSE IF pat[i] = "*" THEN Repeat(pat, i + 1, items, 0, -1)
    ELSE IF pat[i] = "+" THEN Repeat(pat, i + 1, items, 1, -1)
    ELSE IF pat[i] = "{" THEN Brace(pat, i, items)
    ELSE IF pat[i] = "(" THEN Group(pat, i, items)
    ELSE IF pat[i] = "." THEN Parsed(Append(items, [k |-> "any"]), i + 1)
    ELSE IF pat[i] = "^" THEN Parsed(Append(items, [k |-> "at", w |-> "A"]), i + 1)
    ELSE IF pat[i] = "$" THEN Parsed(Append(items, [k |-> "at", w |-> "Z"]), i + 1)
    ELSE Parsed(Append(items, [k |-> "lit", c |-> pat[i]]), i + 1)

\* on with the branch after the item whose reading gave r
ItemsAfter(pat, r) ==
    IF r.st # "ok" THEN r ELSE ParseItems(pat, r.pos, r.node)

\* the items of one branch from index i on (_parse): stops at "|", ")" or the
\* end of the pattern
ParseItems(pat, i, items) ==
    IF i > Len(pat) \/ pat[i] \in {"|", ")"}
    THEN Parsed([k |-> "seq", xs |-> items], i)
    ELSE ItemsAfter(pat, Item(pat, i, items))

\* the branch b put in front of the branches r that follow it
SubJoin(b, r) ==
    IF r.st # "ok" THEN r
    ELSE Parsed([k |-> "alt", xs |-> <<b.node>> \o r.node.xs], r.pos)

\* the branch b has been read: a "|" brings more branches
SubAfter(pat, b) ==
    IF b.st # "ok" THEN b
    ELSE IF b.pos <= Len(pat) /\ pat[b.pos] = "|"
         THEN SubJoin(b, ParseSub(pat, b.pos + 1))
    ELSE Parsed([k |-> "alt", xs |-> <<b.node>>], b.pos)

\* an alternation a|b|c from index i on (_parse_sub)
ParseSub(pat, i) == SubAfter(pat, ParseItems(pat, i, <<>>))

\* a ")" left over at the top level is unbalanced
Whole(pat, r) ==
    IF r.st = "ok" /\ r.pos <= Len(pat) THEN Stopped("error") ELSE r

\* whether pat opens so many groups that the recursion of the parser may
\* pass the interpreter's limit (1000 frames, a few per group)
DeepNesting(pat) == Cardinality({i \in DOMAIN pat : pat[i] = "("}) > 100

\* re.compile(pat, re.IGNORECASE)
re_compile(pat) ==
    IF DeepNesting(pat) THEN Stopped("beyond") ELSE Whole(pat, ParseSub(pat, 1))

\* whether character ch belongs to category e
InCategory(e, ch) ==
    CASE e = "d" -> IsDigit(ch)
      [] e = "D" -> ~IsDigit(ch)
      [] e = "s" -> ch = " "
      [] e = "S" -> ch # " "
      [] e = "w" -> IsWord(ch)
      [] e = "W" -> ~IsWord(ch)

\* whether ch is matched by one member of a set, ignoring case
MemberHit(m, ch) ==
    CASE m.t = "ch" -> lower(m.c) = lower(ch)
      [] m.t = "cat" -> InCategory(m.c, ch)
      [] m.t = "range" ->
            \E x \in KnownChars :
                m.lo <= Ord(x) /\ Ord(x) <= m.hi /\ lower(x) = lower(ch)

\* the zero-width tests at position p (p characters of text lie before it);
\* in an empty text the matcher finds neither \b nor \B
AtHolds(w, text, p) ==
    LET before == p >= 1 /\ IsWord(text[p])
        after == p < Len(text) /\ IsWord(text[p + 1])
    IN  CASE w = "A" -> p = 0
          [] w = "Z" -> p = Len(text)
          [] w = "b" -> before # after
          [] w = "B" -> Len(text) > 0 /\ before = after

RECURSIVE Ends(_, _, _)
RECURSIVE EndsOfSeq(_, _, _, _)
RECURSIVE Times(_, _, _, _)
RECURSIVE More(_, _, _, _, _)

\* node repeated from lo to hi times, least being where lo matches can end
Repeated(node, text, least) ==
    More(node.x, text, least, least, IF node.hi = -1 THEN -1 ELSE node.hi - node.lo)

\* the positions where a match of node can end when it starts at one of the
\* positions in from
Ends(node, text, from) ==
    CASE node.k = "lit" ->
            {p + 1 : p \in {q \in from :
                q < Len(text) /\ lower(text[q + 1]) = lower(node.c)}}
      [] node.k = "any" -> {p + 1 : p \in {q \in from : q < Len(text)}}
      [] node.k = "set" ->
            {p + 1 : p \in {q \in from :
                /\ q < Len(text)
                /\ (\E j \in DOMAIN node.items : MemberHit(node.items[j], text[q + 1]))
                       # node.neg}}
      [] node.k = "at" -> {p \in from : AtHolds(node.w, text, p)}
      [] node.k = "seq" -> EndsOfSeq(node.xs, 1, text, from)
      [] node.k = "alt" -> UNION {Ends(node.xs[j], text, from) : j \in DOMAIN node.xs}
      [] node.k = "grp" -> Ends(node.x, text, from)
      [] node.k = "look" -> {p \in from : (Ends(node.x, text, {p}) # {}) # node.neg}
      [] node.k = "rep" -> Repeated(node, text, Times(node.x, text, from, node.lo))

EndsOfSeq(xs, j, text, from) ==
    IF j > Len(xs) \/ from = {} THEN from
    ELSE EndsOfSeq(xs, j + 1, text, Ends(xs[j], text, from))

\* node matched n times in a row
Times(node, text, from, n) ==
    IF n = 0 \/ from = {} THEN from
    ELSE Times(node, text, Ends(node, text, from), n - 1)

\* one more match of node ends at the positions next
MoreAfter(node, text, acc, n, next) ==
    IF next \subseteq acc THEN acc
    ELSE More(node, text, next, acc \cup next, n - 1)

\* up to n further matches of node (n = -1: any number)
More(node, text, cur, acc, n) ==
    IF n = 0 THEN acc ELSE MoreAfter(node, text, acc, n, Ends(node, text, cur))

\* pattern.search(text) is not None
re_search(node, text) == Ends(node, text, 0..Len(text)) # {}

\* the exceptions str.contains can raise: re.error for a pattern the parser
\* rejects, OverflowError for a repeat count too large, RecursionError for
\* nesting too deep
SearchErrors == {"re.error", "OverflowError", "RecursionError"}

\* the searches of a column with the compiled pattern c
Searched(column, c) ==
    CASE c.st = "ok" ->
            {[error |-> "", mask |-> [k \in DOMAIN column |-> re_search(c.node, column[k])]]}
      [] c.st = "error" -> {[error |-> "re.error", mask |-> <<>>]}
      [] c.st = "beyond" ->
            {[error |-> e, mask |-> <<>>] : e \in SearchErrors}
                \cup {[error |-> "", mask |-> m] : m \in [DOMAIN column -> BOOLEAN]}

\* Series.str.contains(pat, case=False) over a column: the possible outcomes,
\* each an error or the column of booleans
str_contains(column, pat) == Searched(column, re_compile(pat))

RECURSIVE Keep(_, _)
\* boolean-mask selection df[mask]: the rows whose index is in mask, in order
Keep(df, mask) ==
    IF df = <<>> THEN <<>>
    ELSE LET rest == Keep(Tail(df), {k - 1 : k \in mask \ {1}})
         IN  IF 1 \in mask THEN <<Head(df)>> \o rest ELSE rest

\* display_df, lines 174-179: the possible outcomes, each an error or the
\* rows kept.  The PatientId column is searched first, then Neighbourhood.
search(df, term) ==
    IF term = <<>> THEN {[error |-> "", display_df |-> df]}
    ELSE
        LET ids == [k \in DOMAIN df |-> df[k].PatientId]
            hoods == [k \in DOMAIN df |-> df[k].Neighbourhood]
        IN  {IF a.error # "" THEN [error |-> a.error, display_df |-> <<>>]
             ELSE IF b.error # "" THEN [error |-> b.error, display_df |-> <<>>]
             ELSE [error |-> "",
                   display_df |-> Keep(df, {k \in DOMAIN df : a.mask[k] \/ b.mask[k]})] :
                a \in str_contains(ids, term), b \in str_contains(hoods, term)}

\* variant of high_risk: the threshold itself is included
high_risk_inclusive(df) ==
    Keep(df, {k \in DOMAIN df : df[k].No_show = "Yes" /\ df[k].LeadDays >= LeadThreshold})

\* high_risk, line 203
high_risk(df) ==
    Keep(df, {k \in DOMAIN df : df[k].No_show = "Yes" /\ df[k].LeadDays > LeadThreshold})

\* high_risk.head(5), line 207: one expander card per row
head(df, n) == SubSeq(df, 1, IF Len(df) < n THEN Len(df) ELSE n)

\* what a run has put on the page; a section not reached keeps its blank
Blank ==
    [ error         |-> "",
      total_apts    |-> 0,
      rate          |-> Zero,
      sms_rate      |-> Zero,
      no_sms_rate   |-> Zero,
      sms_impact    |-> Zero,
      est_loss      |-> 0,
      gender_counts |-> <<>>,
      search_term   |-> <<>>,
      display_df    |-> <<>>,
      high_risk     |-> <<>>,
      cards         |-> <<>> ]

\* the Dashboard branch, top to bottom: the possible outcomes of a run.  An
\* exception ends the run where it is raised and nothing after it is computed
Dashboard(df, term, donut) ==
    IF kpi_error(df) # "" THEN {[Blank EXCEPT !.error = kpi_error(df)]}
    ELSE
        LET kpi == [Blank EXCEPT
                      !.total_apts = Len(df),
                      !.rate = no_show_rate(df),
                      !.sms_rate = no_show_rate(SelectSeq(df, GotSms)),
                      !.no_sms_rate = no_show_rate(SelectSeq(df, GotNoSms)),
                      !.sms_impact = sms_impact(df),
                      !.est_loss = Len(SelectSeq(df, IsNoShow)) * VisitValue,
                      !.gender_counts = gender_counts(df)]
        IN  IF ~donut THEN {[kpi EXCEPT !.error = "AttributeError"]}
            ELSE {IF found.error # ""
                  THEN [kpi EXCEPT !.error = found.error, !.search_term = term]
                  ELSE [kpi EXCEPT
                          !.search_term = term,
                          !.display_df = found.display_df,
                          !.high_risk = high_risk(df),
                          !.cards = head(high_risk(df), QueueHead)] :
                     found \in search(df, term)}

\* the script for one page: only the Dashboard branch computes anything
Page(df, page, term, donut) ==
    IF page = "Dashboard" THEN Dashboard(df, term, donut) ELSE {Blank}

(***************************************************************************)
(* State machine.                                                          *)
(***************************************************************************)
\* a session before its first run; origin is the session whose run generated
\* the cohort df (0: none)
NotStarted ==
    [started |-> FALSE, page |-> "Dashboard",
     df |-> <<>>, origin |-> 0, out |-> Blank]

Init ==
    /\ cache = <<>>
    /\ sess = [s \in Sessions |-> NotStarted]
    /\ px_has_donut \in BOOLEAN

\* One run of the script for session s (lines 56-217) with the widget values
\* page and term.
\* Line 56 returns the stored cohort when there is one, and otherwise runs
\* load_data on fresh draws from D and stores what it returns.
ScriptRun(s, page, term, D) ==
    LET key == DefaultCount IN
    \E entry \in (IF cache_hit(key) THEN {cache[key]}
                  ELSE {[by |-> s, value |-> load_data(key, t)] : t \in Tapes(key, D)}) :
    \E out \in Page(entry.value, page, term, px_has_donut) :
        /\ cache' = (key :> entry) @@ cache
        /\ sess' = [sess EXCEPT ![s] =
                      [started |-> TRUE, page |-> page,
                       df |-> entry.value, origin |-> entry.by,
                       out |-> out]]
        /\ UNCHANGED px_has_donut

\* a browser opens the app: the radio shows its first option
Open(s, D) ==
    /\ ~sess[s].started
    /\ ScriptRun(s, "Dashboard", <<>>, D)

\* the sidebar radio, line 62; a text input that is not drawn loses its value
Navigate(s, p, D) ==
    /\ sess[s].started
    /\ p # sess[s].page
    /\ ScriptRun(s, p, <<>>, D)

\* the search box of the Detailed Log tab, line 172: it is on the page when
\* the last run got as far as drawing it
Search(s, t, D) ==
    /\ sess[s].started
    /\ sess[s].page = "Dashboard"
    /\ sess[s].out.error \in {""} \cup SearchErrors
    /\ t # sess[s].out.search_term
    /\ ScriptRun(s, sess[s].page, t, D)

\* "Auto-Send SMS Reminders", lines 67-68: the run it starts shows a toast,
\* which is no part of the data
PressSms(s, D) ==
    /\ sess[s].started
    /\ ScriptRun(s, sess[s].page, sess[s].out.search_term, D)

\* "Export CSV", lines 83-88
PressExport(s, D) ==
    /\ sess[s].started
    /\ sess[s].page = "Dashboard"
    /\ ScriptRun(s, sess[s].page, sess[s].out.search_term, D)

\* "Call Patient" on one of the queue's cards, line 213
PressCall(s, D) ==
    /\ sess[s].started
    /\ sess[s].page = "Dashboard"
    /\ sess[s].out.cards # <<>>
    /\ ScriptRun(s, sess[s].page, sess[s].out.search_term, D)

\* load_data called directly with any count, once, through its decorator;
\* the caller is no session (by = 0)
GenCall(n) ==
    /\ cache = <<>>
    /\ \E t \in Tapes(n, GenDraws) :
           cache' = (n :> [by |-> 0, value |-> load_data(n, t)]) @@ cache
    /\ UNCHANGED <<sess, px_has_donut>>

\* search terms typed into the box
Terms ==
    { <<>>, <<"0", "1">>, <<"m", "a", "t", "a">>, <<"t", "ê", "n">>, <<".">>,
      <<"z", "z", "|", "m", "a", "t", "a">>, <<"p", "-", "9", "*", "1">>, <<"(">>,
      <<"(", "?", "t", ")", "a">> }

KpiTerms == { <<>>, <<"0", "1">>, <<"(">> }

SessTerms == { <<>>, <<"0", "1">> }

\* the served app: every session, every interaction
Next ==
    \E s \in Sessions :
        \/ Open(s, SessDraws)
        \/ \E p \in Pages : Navigate(s, p, SessDraws)
        \/ \E t \in SessTerms : Search(s, t, SessDraws)
        \/ PressSms(s, SessDraws)
        \/ PressExport(s, SessDraws)
        \/ PressCall(s, SessDraws)

Spec == Init /\ [][Next]_vars

\* one session's Dashboard over every cohort the dashboard draws give
NextRun ==
    \/ Open(1, KpiDraws)
    \/ \E t \in KpiTerms : Search(1, t, KpiDraws)

SpecRun == Init /\ [][NextRun]_vars

\* one session's search box over every term
NextSearch ==
    \/ Open(1, SearchDraws)
    \/ \E t \in Terms : Search(1, t, SearchDraws)

SpecSearch == Init /\ [][NextSearch]_vars

\* the generator on its own, for every count up to MaxCount
NextGen == \E n \in (-1)..MaxCount : GenCall(n)

SpecGen == Init /\ [][NextGen]_vars

(***************************************************************************)
(* Properties.  Counting below is by index sets and cardinalities, not by  *)
(* the filters the model of the code uses.                                 *)
(***************************************************************************)
DigitVal(c) == (CHOOSE k \in DOMAIN DigitChars : DigitChars[k] = c) - 1

IsDecimal(str) ==
    /\ Len(str) > 0
    /\ \A k \in DOMAIN str : \E j \in DOMAIN DigitChars : DigitChars[j] = str[k]

RECURSIVE StrToInt(_)
StrToInt(str) ==
    IF Len(str) = 1 THEN DigitVal(str[1])
    ELSE 10 * StrToInt(SubSeq(str, 1, Len(str) - 1)) + DigitVal(str[Len(str)])

\* str is prefix followed by the decimal numeral of n
HasId(str, prefix, n) ==
    /\ Len(str) > Len(prefix)
    /\ SubSeq(str, 1, Len(prefix)) = prefix
    /\ IsDecimal(SubSeq(str, Len(prefix) + 1, Len(str)))
    /\ StrToInt(SubSeq(str, Len(prefix) + 1, Len(str))) = n

\* the rows of df at the indices idx, in df's order
Picked(df, idx) ==
    [k \in 1..Cardinality(idx) |->
        df[CHOOSE i \in idx : Cardinality({j \in idx : j <= i}) = k]]

\* text contains term as a literal substring, ignoring case
LiteralContains(text, term) ==
    \E k \in 0..(Len(text) - Len(term)) :
        \A j \in 1..Len(term) : lower(term[j]) = lower(text[k + j])

NoShowsIn(df, idx) == Cardinality({k \in idx : df[k].No_show = "Yes"})

SmsRows(df) == {k \in DOMAIN df : df[k].SMS_received = 1}
NoSmsRows(df) == {k \in DOMAIN df : df[k].SMS_received = 0}

\* the session's last run was of the Dashboard page
OnDashboard(x) == x.started /\ x.page = "Dashboard"

\* the run ended in the KPI section, lines 93-104
KpiAborted(x) == x.out.error \in {"KeyError", "ZeroDivisionError"}

\* the run got as far as the search of lines 175-179
ReachedSearch(x) == ~KpiAborted(x) /\ x.out.error # "AttributeError"

\* C1: for every count N >= 1, load_data(N) returns exactly N records, the
\* i-th of them (i = 0..N-1) has patientId "P-" followed by the numeral of
\* 10000+i and appointmentId "APT-" followed by the numeral of 50000+i, and
\* so no two records of a cohort share a patientId or an appointmentId.
C1_CountAndIds ==
    \A n \in DOMAIN cache :
        n >= 1 =>
            LET v == cache[n].value IN
            /\ DOMAIN v = 1..n
            /\ \A k \in 1..n :
                   /\ HasId(v[k].PatientId, <<"P", "-">>, 10000 + (k - 1))
                   /\ HasId(v[k].AppointmentID, <<"A", "P", "T", "-">>, 50000 + (k - 1))
            /\ \A j, k \in 1..n :
                   j # k => /\ v[j].PatientId # v[k].PatientId
                            /\ v[j].AppointmentID # v[k].AppointmentID

\* a call with count >= 2 has returned
C1_Witness ==
    \E n \in DOMAIN cache : n >= 2 /\ cache[n].by = 0 /\ Len(cache[n].value) >= 2

\* C2: every record load_data produces has appointmentDay = scheduledDay +
\* leadDays, with leadDays an integer in [0,14], whatever the draws were.
C2_AppointmentDay ==
    \A n \in DOMAIN cache :
        \A k \in DOMAIN cache[n].value :
            LET r == cache[n].value[k] IN
            /\ r.AppointmentDay = r.ScheduledDay + r.LeadDays
            /\ r.LeadDays \in 0..14

\* a cohort with the longest lead time on the earliest scheduling day and a
\* zero lead time on the latest
C2_Witness ==
    \E n \in DOMAIN cache :
        \E j, k \in DOMAIN cache[n].value :
            /\ cache[n].value[j].LeadDays = 14
            /\ cache[n].value[j].ScheduledDay = -29
            /\ cache[n].value[k].LeadDays = 0
            /\ cache[n].value[k].ScheduledDay = -1

\* C3: a call of the generator with count <= 0 is rejected: it returns no
\* cohort, so no returned cohort belongs to a count below 1.
C3_NonPositiveCountRejected ==
    \A n \in DOMAIN cache : n >= 1

\* C4: a rate over an empty group (no record, none with an SMS, or none
\* without) is an error local to that rate; it does not end the run of the
\* Dashboard, whose remaining sections are still computed.
C4_EmptyGroupDoesNotAbort ==
    \A s \in Sessions :
        ( /\ OnDashboard(sess[s])
          /\ \/ sess[s].df = <<>>
             \/ SmsRows(sess[s].df) = {}
             \/ NoSmsRows(sess[s].df) = {} )
        => ~KpiAborted(sess[s])

\* C5: the high-risk queue holds exactly the cohort's records with
\* noShow = Yes and leadDays > 5, in the cohort's order.
C5_HighRiskQueue ==
    \A s \in Sessions :
        (OnDashboard(sess[s]) /\ sess[s].out.error = "") =>
            LET df == sess[s].df IN
            sess[s].out.high_risk =
                Picked(df, {k \in DOMAIN df : df[k].No_show = "Yes" /\ df[k].LeadDays > 5})

\* a queue that leaves out a missed appointment booked exactly 5 days ahead
\* and keeps a later row
C5_Witness ==
    \E s \in Sessions :
        /\ OnDashboard(sess[s]) /\ sess[s].out.error = ""
        /\ sess[s].out.high_risk # <<>>
        /\ \E j, k \in DOMAIN sess[s].df :
               /\ j < k
               /\ sess[s].df[j].No_show = "Yes" /\ sess[s].df[j].LeadDays = 5
               /\ sess[s].df[k].No_show = "Yes" /\ sess[s].df[k].LeadDays > 5

\* C6: for every term, a run that gets as far as the search completes it, and
\* search returns exactly the records whose patientId or neighbourhood
\* contains the term as a literal, case-insensitive substring (the term is
\* no pattern), in cohort order, and the whole cohort for the empty term.
C6_SearchIsLiteralSubstring ==
    \A s \in Sessions :
        (OnDashboard(sess[s]) /\ ReachedSearch(sess[s])) =>
            LET df == sess[s].df
                term == sess[s].out.search_term
            IN  /\ sess[s].out.error = ""
                /\ sess[s].out.display_df =
                       IF term = <<>> THEN df
                       ELSE Picked(df, {k \in DOMAIN df :
                                           \/ LiteralContains(df[k].PatientId, term)
                                           \/ LiteralContains(df[k].Neighbourhood, term)})

\* C7: once a session has its cohort, every later run of the script, whatever
\* the interaction, leaves it with the same cohort, record for record: the
\* one generated first and stored, which is never generated again.
C7_CohortReadOnly ==
    /\ [](\A s \in Sessions :
            sess[s].started =>
                /\ DefaultCount \in DOMAIN cache
                /\ sess[s].df = cache[DefaultCount].value)
    /\ [][\A s \in Sessions :
            sess[s].started =>
                /\ sess'[s].started
                /\ sess'[s].df = sess[s].df
                /\ cache' = cache]_vars

\* a session that has typed a search term into the Dashboard it was shown,
\* while another session has left the Dashboard
C7_Witness ==
    \E s, t \in Sessions :
        /\ OnDashboard(sess[s])
        /\ sess[s].out.search_term # <<>>
        /\ sess[s].out.display_df # <<>>
        /\ sess[t].started /\ sess[t].page # "Dashboard"

\* C8: no two sessions are handed the cohort of the same generation.
C8_SessionsIsolated ==
    \A s, t \in Sessions :
        (s # t /\ sess[s].started /\ sess[t].started) =>
            sess[s].origin # sess[t].origin

\* C9: for a non-empty cohort the no-show rate is count(noShow = Yes) /
\* count(records) * 100, lies in [0,100], and is the same for every
\* permutation of the records; it is the rate the Dashboard shows.
C9_NoShowRate ==
    \A s \in Sessions :
        (sess[s].started /\ sess[s].df # <<>>) =>
            LET df == sess[s].df
                r == no_show_rate(df)
            IN  /\ r.den > 0
                /\ r.num * Len(df) = 100 * NoShowsIn(df, DOMAIN df) * r.den
                /\ 0 <= r.num /\ r.num <= 100 * r.den
                /\ \A p \in Permutations(DOMAIN df) :
                       LET q == no_show_rate([k \in DOMAIN df |-> df[p[k]]])
                       IN  q.den > 0 /\ q.num * r.den = r.num * q.den
                /\ (OnDashboard(sess[s]) /\ ~KpiAborted(sess[s]))
                       => sess[s].out.rate = r

\* a shown rate strictly between 0 and 100 over a cohort whose first two
\* records differ in outcome
C9_Witness ==
    \E s \in Sessions :
        /\ OnDashboard(sess[s]) /\ sess[s].out.error = ""
        /\ 0 < sess[s].out.rate.num
        /\ sess[s].out.rate.num < 100 * sess[s].out.rate.den
        /\ sess[s].df[1].No_show # sess[s].df[2].No_show

\* C10: when the SMS group and the no-SMS group are both non-empty, smsImpact
\* is the no-show rate of the no-SMS group minus that of the SMS group, not
\* flipped and not clamped: negative exactly when the SMS group has the
\* higher rate, and within [-100,100].
C10_SmsImpact ==
    \A s \in Sessions :
        LET df == sess[s].df
            ds == Cardinality(SmsRows(df))
            dn == Cardinality(NoSmsRows(df))
            ys == NoShowsIn(df, SmsRows(df))
            yn == NoShowsIn(df, NoSmsRows(df))
            i  == sess[s].out.sms_impact
        IN  (OnDashboard(sess[s]) /\ ds > 0 /\ dn > 0) =>
                /\ ~KpiAborted(sess[s])
                /\ i.den > 0
                /\ i.num * (dn * ds) = (100 * yn * ds - 100 * ys * dn) * i.den
                /\ (i.num < 0) <=> (ys * dn > yn * ds)
                /\ -100 * i.den <= i.num /\ i.num <= 100 * i.den

\* a shown impact below zero: the reminded patients missed more often
C10_Witness ==
    \E s \in Sessions :
        /\ OnDashboard(sess[s])
        /\ ~KpiAborted(sess[s])
        /\ sess[s].out.sms_impact.num < 0

====
